---- MODULE Spec2Model ----
(***************************************************************************)
(* A model of slacktor: the generational slot allocator of src/slab.rs and *)
(* the actor registry of src/lib.rs with the handles of src/actor.rs.      *)
(***************************************************************************)
EXTENDS Integers, Sequences, FiniteSets, TLC

VARIABLES
    \* ---- Slab<T> of src/slab.rs ----
    entries,            \* Vec<SlabEntry<T>>: sequence of [entry, generation]
    next_free,          \* Slab::next_free
    used,               \* Slab::used
    initial_capacity,   \* Slab::initial_capacity
    capacity,           \* entries.capacity() of the backing Vec
    panicked,           \* insert reached panic!("The slab's free list is corrupted!")
    \* ---- history of the Slab's calls ----
    issued,             \* set of [key, val]: every key a successful insert returned
    removed,            \* set of keys whose slot a remove freed
    frees,              \* per index: number of Used -> Free transitions
    freedOrder,         \* the indices whose entry is Free, the last freed first
    retired,            \* set of [key, val]: the keys issued before a reset
    peak,               \* the largest value of used since new or the last reset
    nextVal,            \* values handed to insert are numbered 1, 2, ...
    lastOp,             \* the call that produced the current state, and its result
    \* ---- Slacktor of src/lib.rs ----
    slab,               \* Slacktor::slab: [entries, len, next] of the slab crate
    actors,             \* every actor value ever passed to spawn, in spawn order
    live,               \* history: per identifier, the actor spawn returned it for and
                        \* that was not killed since (0: none)
    killed,             \* history: the identifiers that kill found tracked
    rop,                \* the registry call that produced the current state
    \* ---- threads that hold clones of handles ----
    threads             \* per thread: the clone it holds and its position in send

slabVars == <<entries, next_free, used, initial_capacity, capacity, panicked,
              issued, removed, frees, freedOrder, retired, peak, nextVal, lastOp>>

regVars == <<slab, actors, live, killed, rop, threads>>

vars == <<slabVars, regVars>>

\* ------------------------------------------------------------------------
\* Bounds of the model
\* ------------------------------------------------------------------------
MaxInitCap == 2      \* Slab::new(capacity) is tried for capacity 0..MaxInitCap
MaxCap     == 3      \* the backing Vec is never grown beyond this capacity
MaxInserts == 4      \* number of insert calls that receive a fresh value
MaxKeyGen  == 2      \* generations of the keys callers pass to remove/get

Max(a, b) == IF a >= b THEN a ELSE b

\* ------------------------------------------------------------------------
\* src/slab.rs: data
\* ------------------------------------------------------------------------
SlabKey(i, g) == [index |-> i, generation |-> g]

Used(v) == [tag |-> "Used", val |-> v]
Free(n) == [tag |-> "Free", val |-> n]

SlabEntry(e, g) == [entry |-> e, generation |-> g]

\* Option<T>
None    == [some |-> FALSE, val |-> 0]
Some(v) == [some |-> TRUE,  val |-> v]

\* Slab::get: Some(value) only for an in-range, Used entry of equal generation
get(es, key) ==
    IF key.index + 1 > Len(es) THEN None
    ELSE LET slab_entry == es[key.index + 1] IN
         IF slab_entry.entry.tag = "Used" /\ key.generation = slab_entry.generation
         THEN Some(slab_entry.entry.val)
         ELSE None

\* Slab::get_mut: the same test, on a mutable borrow
GetMutAnyGeneration(es, key) ==
    IF key.index + 1 > Len(es) THEN None
    ELSE LET slab_entry == es[key.index + 1] IN
         IF slab_entry.entry.tag = "Used"
         THEN Some(slab_entry.entry.val)
         ELSE None
get_mut(es, key) ==
    IF key.index + 1 > Len(es) THEN None
    ELSE LET slab_entry == es[key.index + 1] IN
         IF slab_entry.entry.tag = "Used" /\ key.generation = slab_entry.generation
         THEN Some(slab_entry.entry.val)
         ELSE None

\* the key insert builds for the reused entry at next_free
ReuseKeyZero(i, slab_entry) == SlabKey(i, 0)
ReuseKey(i, slab_entry) == SlabKey(i, slab_entry.generation)

\* Slab::len
len == used

\* slab_entry.generation += 1 of Slab::remove
FreedGenerationKept(g) == g
FreedGeneration(g) == g + 1

\* remove's test that the removal applies: in range, Used, generation equal
RemoveAppliesAnyGeneration(es, key) ==
    /\ key.index + 1 <= Len(es)
    /\ es[key.index + 1].entry.tag = "Used"
RemoveApplies(es, key) ==
    /\ key.index + 1 <= Len(es)
    /\ es[key.index + 1].entry.tag = "Used"
    /\ es[key.index + 1].generation = key.generation

\* Entry::Free(self.next_free) of Slab::remove: the link the freed entry holds
FreedLinkSelf(nf, key) == key.index
FreedLink(nf, key) == nf

\* self.next_free = key.index of Slab::remove
NextFreeAfterRemoveKept(nf, key) == nf
NextFreeAfterRemove(nf, key) == key.index

\* self.used -= 1 of Slab::remove
UsedAfterRemoveKept(u) == u
UsedAfterRemove(u) == u - 1

\* self.next_free = next_free of Slab::insert: the link the reused entry held
NextFreeAfterReuseKept(nf, slab_entry) == nf
NextFreeAfterReuse(nf, slab_entry) == slab_entry.entry.val

\* insert's test that nothing can be pushed: self.next_free >= capacity
IsFullAbove(nf, cap) == nf > cap
IsFull(nf, cap) == nf >= cap

\* Vec::reserve(additional): afterwards capacity >= len + additional; the
\* allocation keeps the capacity when it suffices and otherwise grows to the
\* required size or to the amortised double
ReserveOutcomes(cap, length, additional) ==
    IF cap - length >= additional THEN {cap}
    ELSE {length + additional, Max(length + additional, 2 * cap)}

ValidKeys == {SlabKey(i, g) : i \in 0..MaxCap, g \in 0..MaxKeyGen}

\* what the last call returned: an Option<SlabKey>, an Option<&T> or nothing
NoKey == SlabKey(0, 0)
Op(name, key, val, ok) == [op |-> name, key |-> key, val |-> val, ok |-> ok]

\* ------------------------------------------------------------------------
\* src/slab.rs: operations
\* ------------------------------------------------------------------------
\* Slab::new(capacity)
SlabNew(cap) ==
    /\ initial_capacity = cap
    /\ capacity = cap
    /\ entries = <<>>
    /\ next_free = 0
    /\ used = 0
    /\ panicked = FALSE
    /\ issued = {}
    /\ removed = {}
    /\ frees = <<>>
    /\ freedOrder = <<>>
    /\ retired = {}
    /\ peak = 0
    /\ nextVal = 1
    /\ lastOp = Op("new", NoKey, 0, TRUE)

SlabInit == \E cap \in 0..MaxInitCap : SlabNew(cap)

\* Slab::insert, the branch that reuses the Free entry at next_free
insert_reuse ==
    /\ ~panicked
    /\ nextVal <= MaxInserts
    /\ next_free + 1 <= Len(entries)
    /\ LET slab_entry == entries[next_free + 1]
           key == ReuseKey(next_free, slab_entry)
       IN  IF slab_entry.entry.tag # "Free"
           THEN /\ panicked' = TRUE
                /\ lastOp' = Op("insert", NoKey, 0, FALSE)
                /\ UNCHANGED <<entries, next_free, used, issued, freedOrder, peak>>
           ELSE /\ next_free' = NextFreeAfterReuse(next_free, slab_entry)
                /\ entries' = [entries EXCEPT ![next_free + 1].entry = Used(nextVal)]
                /\ used' = used + 1
                /\ issued' = issued \cup {[key |-> key, val |-> nextVal]}
                /\ freedOrder' = SelectSeq(freedOrder, LAMBDA i : i # next_free)
                /\ peak' = Max(peak, used + 1)
                /\ lastOp' = Op("insert", key, 0, TRUE)
                /\ UNCHANGED panicked
    /\ nextVal' = nextVal + 1
    /\ UNCHANGED <<initial_capacity, capacity, removed, frees, retired>>
    /\ UNCHANGED regVars

\* Slab::insert, the branch that pushes a new entry of generation 0
insert_push ==
    /\ ~panicked
    /\ nextVal <= MaxInserts
    /\ next_free + 1 > Len(entries)
    /\ ~IsFull(next_free, capacity)
    /\ LET key == SlabKey(Len(entries), 0) IN
        /\ entries' = Append(entries, SlabEntry(Used(nextVal), 0))
        /\ next_free' = Len(entries')
        /\ used' = used + 1
        /\ issued' = issued \cup {[key |-> key, val |-> nextVal]}
        /\ frees' = Append(frees, 0)
        /\ peak' = Max(peak, used + 1)
        /\ lastOp' = Op("insert", key, 0, TRUE)
    /\ nextVal' = nextVal + 1
    /\ UNCHANGED <<initial_capacity, capacity, panicked, removed, freedOrder, retired>>
    /\ UNCHANGED regVars

\* Slab::insert, the branch that returns None: no entry at next_free and no
\* spare capacity
insert_full ==
    /\ ~panicked
    /\ nextVal <= MaxInserts
    /\ next_free + 1 > Len(entries)
    /\ IsFull(next_free, capacity)
    /\ lastOp' = Op("insert", NoKey, 0, FALSE)
    /\ UNCHANGED <<entries, next_free, used, initial_capacity, capacity, panicked,
                   issued, removed, frees, freedOrder, retired, peak, nextVal>>
    /\ UNCHANGED regVars

\* Slab::remove(key)
remove(key) ==
    /\ ~panicked
    /\ IF RemoveApplies(entries, key)
       THEN /\ entries' = [entries EXCEPT
                    ![key.index + 1] =
                        SlabEntry(Free(FreedLink(next_free, key)),
                                  FreedGeneration(@.generation))]
            /\ next_free' = NextFreeAfterRemove(next_free, key)
            /\ used' = UsedAfterRemove(used)
       ELSE UNCHANGED <<entries, next_free, used>>
    /\ lastOp' = Op("remove", NoKey, 0, TRUE)
    \* history: a slot that went from Used to Free, whatever key was passed
    /\ LET i == key.index + 1
           freed == /\ i <= Len(entries)
                    /\ entries[i].entry.tag = "Used"
                    /\ entries'[i].entry.tag = "Free"
       IN  /\ frees' = IF freed THEN [frees EXCEPT ![i] = @ + 1] ELSE frees
           /\ removed' = IF freed
                         THEN removed \cup {SlabKey(key.index, entries[i].generation)}
                         ELSE removed
           /\ freedOrder' = IF freed THEN <<key.index>> \o freedOrder ELSE freedOrder
    /\ UNCHANGED <<initial_capacity, capacity, panicked, issued, retired, peak, nextVal>>
    /\ UNCHANGED regVars

\* Slab::get(key)
get_call(key) ==
    /\ ~panicked
    /\ LET r == get(entries, key) IN lastOp' = Op("get", NoKey, r.val, r.some)
    /\ UNCHANGED <<entries, next_free, used, initial_capacity, capacity, panicked,
                   issued, removed, frees, freedOrder, retired, peak, nextVal>>
    /\ UNCHANGED regVars

\* Slab::get_mut(key); the caller only reads through the borrow
get_mut_call(key) ==
    /\ ~panicked
    /\ LET r == get_mut(entries, key) IN lastOp' = Op("get_mut", NoKey, r.val, r.some)
    /\ UNCHANGED <<entries, next_free, used, initial_capacity, capacity, panicked,
                   issued, removed, frees, freedOrder, retired, peak, nextVal>>
    /\ UNCHANGED regVars

\* Slab::increase_capacity(additional): additional = None is passed as -1
increase_capacity(additional) ==
    /\ ~panicked
    /\ LET add == IF additional = -1 THEN capacity ELSE additional IN
       \E c \in ReserveOutcomes(capacity, Len(entries), add) :
          /\ c <= MaxCap
          /\ capacity' = c
    /\ lastOp' = Op("increase_capacity", NoKey, additional, TRUE)
    /\ UNCHANGED <<entries, next_free, used, initial_capacity, panicked,
                   issued, removed, frees, freedOrder, retired, peak, nextVal>>
    /\ UNCHANGED regVars

\* the body of Slab::deallocate_to(capacity): a new Vec of that capacity,
\* next_free and used reset, the capacity remembered as the initial one
Reallocate(cap, name) ==
    /\ ~panicked
    /\ entries' = <<>>
    /\ capacity' = cap
    /\ next_free' = 0
    /\ used' = 0
    /\ initial_capacity' = cap
    /\ lastOp' = Op(name, NoKey, 0, TRUE)
    \* history: the keys issued so far belong to the discarded contents
    /\ retired' = retired \cup issued
    /\ issued' = {}
    /\ removed' = {}
    /\ frees' = <<>>
    /\ freedOrder' = <<>>
    /\ peak' = 0
    /\ UNCHANGED <<panicked, nextVal>>
    /\ UNCHANGED regVars

\* Slab::deallocate_to(capacity)
deallocate_to(cap) == Reallocate(cap, "deallocate_to")

\* Slab::clear
clear == Reallocate(initial_capacity, "clear")

SlabNext ==
    \/ insert_reuse
    \/ insert_push
    \/ insert_full
    \/ \E key \in ValidKeys : remove(key)
    \/ \E key \in ValidKeys : get_call(key)
    \/ \E key \in ValidKeys : get_mut_call(key)
    \/ \E additional \in {-1, 1, 2} : increase_capacity(additional)

\* the allocator with its two resets
SlabResetNext ==
    \/ SlabNext
    \/ \E cap \in 0..MaxInitCap : deallocate_to(cap)
    \/ clear

\* ------------------------------------------------------------------------
\* Bounds of the registry model
\* ------------------------------------------------------------------------
MaxActors  == 2      \* number of spawn calls
MaxClones  == 2      \* handle clones that callers hold at a time
MaxDestroy == 1      \* ActorHandle::kill is called while fewer destroy calls were made

MaxThreads == 2      \* threads that hold a clone of a handle and call send

Threads == 1..MaxThreads

\* the identifiers callers pass: every index a spawn can return, and one more
Ids == 0..MaxActors

Types    == {"TestActor", "OtherActor"}
Payloads == {5}

\* the n-th spawned actor holds a value of its own (7, 6, 5, ...), so that the
\* result of a send tells the instances apart
ActorValue(n) == 8 - n

\* ------------------------------------------------------------------------
\* examples/simple.rs: the handler  m.0 ^ self.0
\* ------------------------------------------------------------------------
RECURSIVE Xor(_, _)
Xor(a, b) ==
    IF a = 0 /\ b = 0 THEN 0
    ELSE (((a % 2) + (b % 2)) % 2) + 2 * Xor(a \div 2, b \div 2)

handle_message(actor, m) == Xor(m, actor.value)

\* ------------------------------------------------------------------------
\* the slab crate, as src/lib.rs calls it
\* ------------------------------------------------------------------------
Occupied(v) == [tag |-> "Occupied", val |-> v]
Vacant(n)   == [tag |-> "Vacant", val |-> n]

\* slab::Slab::new()
slab_new == [entries |-> <<>>, len |-> 0, next |-> 0]

\* self.slab.vacant_key()
SlabVacantKeyLen(s) == Len(s.entries)
slab_vacant_key(s) == s.next

\* self.slab.contains(id)
slab_contains(s, id) ==
    /\ id + 1 <= Len(s.entries)
    /\ s.entries[id + 1].tag = "Occupied"

\* self.slab.get(id)
slab_get(s, id) ==
    IF slab_contains(s, id) THEN Some(s.entries[id + 1].val) ELSE None

\* the key self.slab.insert(val) returns: the head of the vacant list
SlabInsertKeyAppended(s) == Len(s.entries)
slab_insert_key(s) == s.next

\* self.slab.insert(val): the slab afterwards
slab_insert(s, val) ==
    LET key == s.next IN
    IF key = Len(s.entries)
    THEN [entries |-> Append(s.entries, Occupied(val)),
          len |-> s.len + 1, next |-> key + 1]
    ELSE [entries |-> [s.entries EXCEPT ![key + 1] = Occupied(val)],
          len |-> s.len + 1, next |-> s.entries[key + 1].val]

\* self.slab.remove(id), for an id that contains() accepted
slab_remove(s, id) ==
    [entries |-> [s.entries EXCEPT ![id + 1] = Vacant(s.next)],
     len |-> s.len - 1, next |-> id]

\* the vacant entries after the last occupied one are popped
RECURSIVE PopVacant(_)
PopVacant(es) ==
    IF Len(es) > 0 /\ es[Len(es)].tag = "Vacant"
    THEN PopVacant(SubSeq(es, 1, Len(es) - 1))
    ELSE es

\* recreate_vacant_list: walks the entries from the back and links each
\* vacant one to the head found so far
RECURSIVE RecreateVacantList(_, _, _)
RecreateVacantList(es, i, nx) ==
    IF i = 0 THEN [entries |-> es, next |-> nx]
    ELSE IF es[i].tag = "Vacant"
         THEN RecreateVacantList([es EXCEPT ![i] = Vacant(nx)], i - 1, i - 1)
         ELSE RecreateVacantList(es, i - 1, nx)

\* self.slab.shrink_to_fit()
slab_shrink_to_fit(s) ==
    LET es == PopVacant(s.entries) IN
    IF Len(es) = Len(s.entries) THEN s
    ELSE LET r == RecreateVacantList(es, Len(es), Len(es)) IN
         [entries |-> r.entries, len |-> s.len, next |-> r.next]

\* self.slab.drain(), consumed by the for loop: the slab it leaves
SlabDrainKeepNext(s) == [entries |-> <<>>, len |-> 0, next |-> s.next]
slab_drain(s) == [entries |-> <<>>, len |-> 0, next |-> 0]

\* self.slab.drain(): the occupied values, which the loop visits
slab_drained(s) ==
    {s.entries[i].val : i \in {j \in 1..Len(s.entries) : s.entries[j].tag = "Occupied"}}

\* ------------------------------------------------------------------------
\* src/actor.rs: ActorHandle<A>(Arc<A>)
\* ------------------------------------------------------------------------
\* ActorHandle::new(actor): Arc::new gives the first strong reference, which
\* the registry's entry owns
NewActor(t, v) ==
    [type |-> t, value |-> v, strong |-> 1, clones |-> 0,
     destroyed |-> 0, dropped |-> FALSE]

\* Clone for ActorHandle: Arc::clone adds a strong reference
CloneUncounted(actor) == actor
clone(actor) == [actor EXCEPT !.strong = @ + 1]

\* dropping one ActorHandle: Arc's drop releases a strong reference and
\* drops the actor value with the last one
ReleaseEager(actor) == [actor EXCEPT !.strong = @ - 1, !.dropped = TRUE]
Release(actor) ==
    [actor EXCEPT !.strong = @ - 1, !.dropped = (actor.strong = 1)]

\* ActorRef::kill / ActorHandle::kill: self.0.destroy()
KillTwice(actor) == [actor EXCEPT !.destroyed = @ + 2]
kill(actor) == [actor EXCEPT !.destroyed = @ + 1]

\* ActorHandle::send / MessageSender::send: self.0.handle_message(message)
send(actor, m) == handle_message(actor, m)

\* as_any().downcast_ref::<ActorHandle<A>>(): succeeds for the stored type
DowncastAny(actor, A) == TRUE
downcast_ref(actor, A) == actor.type = A

\* ------------------------------------------------------------------------
\* src/lib.rs: Slacktor
\* ------------------------------------------------------------------------
\* what the last call returned: spawn an id, get (recorded with its declared
\* type and identifier) and clone the actor behind the handle or None, send
\* the handler's result, the awaiting kill Some(()) or None
ROp(name, A, id, ok, val) ==
    [op |-> name, type |-> A, id |-> id, ok |-> ok, val |-> val]

Unit == ROp("unit", "-", 0, TRUE, 0)

\* a thread that holds no handle
NoHandle == [pc |-> "none", h |-> 0, calls |-> 0, res |-> 0, onDropped |-> FALSE]

\* a thread that holds a clone of the handle of actor a and is not in a call
Holding(a) == [pc |-> "idle", h |-> a, calls |-> 0, res |-> 0, onDropped |-> FALSE]

\* the message of thread t: TestMessage(4 + t), its own
ThreadMessage(t) == 4 + t

\* Slacktor::new
RegInit ==
    /\ threads = [t \in Threads |-> NoHandle]
    /\ slab = slab_new
    /\ actors = <<>>
    /\ live = [id \in Ids |-> 0]
    /\ killed = {}
    /\ rop = Unit

\* Slacktor::next_id
next_id == slab_vacant_key(slab)

\* Slacktor::next_id(), the caller looking at the result
next_id_call ==
    /\ rop' = ROp("next_id", "-", 0, TRUE, next_id)
    /\ UNCHANGED <<slab, actors, live, killed>>
    /\ UNCHANGED threads
    /\ UNCHANGED slabVars

\* Slacktor::get::<A>(id): the number of the actor whose handle is returned
Slacktor_get(s, as, A, id) ==
    LET r == slab_get(s, id) IN
    IF r.some /\ downcast_ref(as[r.val], A) THEN r ELSE None

\* Slacktor::spawn(actor)
spawn(A) ==
    /\ Len(actors) < MaxActors
    /\ actors' = Append(actors, NewActor(A, ActorValue(Len(actors) + 1)))
    /\ slab' = slab_insert(slab, Len(actors) + 1)
    /\ rop' = ROp("spawn", "-", 0, TRUE, slab_insert_key(slab))
    /\ live' = [live EXCEPT ![rop'.val] = Len(actors) + 1]
    /\ UNCHANGED killed
    /\ UNCHANGED threads
    /\ UNCHANGED slabVars

\* Slacktor::kill(id), synchronous configuration
Slacktor_kill(id) ==
    /\ IF ~slab_contains(slab, id)
       THEN /\ UNCHANGED <<slab, actors, live, killed>>
            /\ rop' = Unit
       ELSE LET a == slab.entries[id + 1].val IN
            /\ slab' = slab_remove(slab, id)
            /\ actors' = [actors EXCEPT ![a] = Release(kill(@))]
            /\ live' = [live EXCEPT ![id] = 0]
            /\ killed' = killed \cup {id}
            /\ rop' = Unit
    /\ UNCHANGED threads
    /\ UNCHANGED slabVars

\* Slacktor::kill::<A>(id), cooperative suspension (feature "async"): the
\* removed handle is dropped when the downcast fails and `?` returns None
kill_async(A, id) ==
    /\ IF ~slab_contains(slab, id)
       THEN /\ UNCHANGED <<slab, actors, live, killed>>
            /\ rop' = ROp("kill", "-", 0, FALSE, 0)
       ELSE LET a == slab.entries[id + 1].val IN
            /\ slab' = slab_remove(slab, id)
            /\ IF downcast_ref(actors[a], A)
               THEN /\ actors' = [actors EXCEPT ![a] = Release(kill(@))]
                    /\ rop' = ROp("kill", "-", 0, TRUE, 0)
               ELSE /\ actors' = [actors EXCEPT ![a] = Release(@)]
                    /\ rop' = ROp("kill", "-", 0, FALSE, 0)
            /\ live' = [live EXCEPT ![id] = 0]
            /\ killed' = killed \cup {id}
    /\ UNCHANGED threads
    /\ UNCHANGED slabVars

\* Slacktor::get::<A>(id), the caller looking at the result
Slacktor_get_call(A, id) ==
    /\ LET r == Slacktor_get(slab, actors, A, id) IN
       rop' = ROp("get", A, id, r.some, r.val)
    /\ UNCHANGED <<slab, actors, live, killed>>
    /\ UNCHANGED threads
    /\ UNCHANGED slabVars

\* system.get::<A>(id).unwrap().send(TestMessage(m))
get_send(A, id, m) ==
    /\ LET r == Slacktor_get(slab, actors, A, id) IN
        /\ r.some
        /\ rop' = ROp("send", "-", 0, ~actors[r.val].dropped, send(actors[r.val], m))
    /\ UNCHANGED <<slab, actors, live, killed>>
    /\ UNCHANGED threads
    /\ UNCHANGED slabVars

\* the number of handle clones that callers hold
RECURSIVE HeldClones(_, _)
HeldClones(as, n) == IF n = 0 THEN 0 ELSE as[n].clones + HeldClones(as, n - 1)

\* the number of destroy calls made so far
RECURSIVE DestroyCalls(_, _)
DestroyCalls(as, n) == IF n = 0 THEN 0 ELSE as[n].destroyed + DestroyCalls(as, n - 1)

\* system.get::<A>(id).cloned(): the caller keeps a clone of the handle
get_clone(A, id) ==
    /\ LET r == Slacktor_get(slab, actors, A, id) IN
        /\ r.some
        /\ HeldClones(actors, Len(actors)) < MaxClones
        /\ actors' = [actors EXCEPT ![r.val] = [clone(@) EXCEPT !.clones = @ + 1]]
        /\ rop' = ROp("clone", "-", 0, TRUE, r.val)
    /\ UNCHANGED <<slab, live, killed>>
    /\ UNCHANGED threads
    /\ UNCHANGED slabVars

\* handle.clone() on a clone the caller holds
handle_clone(a) ==
    /\ actors[a].clones > 0
    /\ HeldClones(actors, Len(actors)) < MaxClones
    /\ actors' = [actors EXCEPT ![a] = [clone(@) EXCEPT !.clones = @ + 1]]
    /\ rop' = ROp("clone", "-", 0, TRUE, a)
    /\ UNCHANGED <<slab, live, killed>>
    /\ UNCHANGED threads
    /\ UNCHANGED slabVars

\* a clone the caller holds goes out of scope
handle_drop(a) ==
    /\ actors[a].clones > 0
    /\ actors' = [actors EXCEPT ![a] = [Release(@) EXCEPT !.clones = @ - 1]]
    /\ rop' = Unit
    /\ UNCHANGED <<slab, live, killed>>
    /\ UNCHANGED threads
    /\ UNCHANGED slabVars

\* ActorHandle::send(message) on a clone the caller holds
handle_send(a, m) ==
    /\ actors[a].clones > 0
    /\ rop' = ROp("send", "-", 0, ~actors[a].dropped, send(actors[a], m))
    /\ UNCHANGED <<slab, actors, live, killed>>
    /\ UNCHANGED threads
    /\ UNCHANGED slabVars

\* ActorHandle::kill() on a clone the caller holds
handle_kill(a) ==
    /\ actors[a].clones > 0
    /\ DestroyCalls(actors, Len(actors)) < MaxDestroy
    /\ actors' = [actors EXCEPT ![a] = kill(@)]
    /\ rop' = Unit
    /\ UNCHANGED <<slab, live, killed>>
    /\ UNCHANGED threads
    /\ UNCHANGED slabVars

\* Slacktor::shutdown, synchronous configuration
shutdown ==
    /\ LET d == slab_drained(slab) IN
       actors' = [a \in 1..Len(actors) |->
                    IF a \in d THEN Release(kill(actors[a])) ELSE actors[a]]
    /\ slab' = slab_shrink_to_fit(slab_drain(slab))
    /\ rop' = Unit
    /\ live' = [id \in Ids |-> 0]
    /\ UNCHANGED killed
    /\ UNCHANGED threads
    /\ UNCHANGED slabVars

\* Slacktor::shrink
shrink ==
    /\ slab' = slab_shrink_to_fit(slab)
    /\ rop' = Unit
    /\ UNCHANGED <<actors, live, killed>>
    /\ UNCHANGED threads
    /\ UNCHANGED slabVars

Next ==
    \/ \E A \in Types : spawn(A)
    \/ \E id \in Ids : Slacktor_kill(id)
    \/ \E A \in Types, id \in Ids : Slacktor_get_call(A, id)
    \/ \E A \in Types, id \in Ids, m \in Payloads : get_send(A, id, m)
    \/ \E A \in Types, id \in Ids : get_clone(A, id)
    \/ \E a \in 1..Len(actors) : handle_clone(a)
    \/ \E a \in 1..Len(actors) : handle_drop(a)
    \/ \E a \in 1..Len(actors), m \in Payloads : handle_send(a, m)
    \/ \E a \in 1..Len(actors) : handle_kill(a)
    \/ shutdown
    \/ shrink
    \/ next_id_call

\* the calls of the configuration with cooperative suspension; its shutdown
\* calls ActorRef::kill, which that configuration does not declare
AsyncNext ==
    \/ \E A \in Types : spawn(A)
    \/ \E A \in Types, id \in Ids : kill_async(A, id)
    \/ \E A \in Types, id \in Ids : Slacktor_get_call(A, id)
    \/ \E A \in Types, id \in Ids, m \in Payloads : get_send(A, id, m)
    \/ \E A \in Types, id \in Ids : get_clone(A, id)
    \/ \E a \in 1..Len(actors) : handle_clone(a)
    \/ \E a \in 1..Len(actors) : handle_drop(a)
    \/ \E a \in 1..Len(actors), m \in Payloads : handle_send(a, m)
    \/ \E a \in 1..Len(actors) : handle_kill(a)
    \/ shrink
    \/ next_id_call

\* a thread takes a clone of the handle that get::<TestActor>(id) returns
thread_get(t, id) ==
    /\ threads[t].pc = "none"
    /\ LET r == Slacktor_get(slab, actors, "TestActor", id) IN
        /\ r.some
        /\ actors' = [actors EXCEPT ![r.val] = [clone(@) EXCEPT !.clones = @ + 1]]
        /\ threads' = [threads EXCEPT ![t] = Holding(r.val)]
    /\ UNCHANGED <<slab, live, killed, rop>>
    /\ UNCHANGED slabVars

\* ActorHandle::send(message) is entered with the thread's message
send_call(t) ==
    /\ threads[t].pc = "idle"
    /\ threads' = [threads EXCEPT ![t] = [Holding(@.h) EXCEPT !.pc = "called"]]
    /\ UNCHANGED <<slab, actors, live, killed, rop>>
    /\ UNCHANGED slabVars

\* self.0.handle_message(message) runs on the actor behind the Arc
send_handle_message(t) ==
    /\ threads[t].pc = "called"
    /\ threads' = [threads EXCEPT ![t] =
                     [@ EXCEPT !.pc = "handled",
                               !.calls = @ + 1,
                               !.res = send(actors[threads[t].h], ThreadMessage(t)),
                               !.onDropped = actors[threads[t].h].dropped]]
    /\ UNCHANGED <<slab, actors, live, killed, rop>>
    /\ UNCHANGED slabVars

\* send returns the handler's result to its caller
send_return(t) ==
    /\ threads[t].pc = "handled"
    /\ threads' = [threads EXCEPT ![t].pc = "idle"]
    /\ UNCHANGED <<slab, actors, live, killed, rop>>
    /\ UNCHANGED slabVars

\* the thread's clone goes out of scope; never during a send, which borrows it
thread_drop(t) ==
    /\ threads[t].pc = "idle"
    /\ actors' = [actors EXCEPT ![threads[t].h] = [Release(@) EXCEPT !.clones = @ - 1]]
    /\ threads' = [threads EXCEPT ![t] = NoHandle]
    /\ UNCHANGED <<slab, live, killed, rop>>
    /\ UNCHANGED slabVars

\* threads sending through their clones while the owner of the registry
\* spawns, kills and shuts down; a send is three steps, between which the
\* others run; kill and shutdown are one step each, as the release of the
\* registry's Arc is the only one of their steps that a send can observe
ConcNext ==
    \/ spawn("TestActor")
    \/ \E id \in Ids : Slacktor_kill(id)
    \/ shutdown
    \/ \E t \in Threads, id \in Ids : thread_get(t, id)
    \/ \E t \in Threads : send_call(t)
    \/ \E t \in Threads : send_handle_message(t)
    \/ \E t \in Threads : send_return(t)
    \/ \E t \in Threads : thread_drop(t)

Init == RegInit /\ SlabNew(MaxInitCap)

\* the registry with concurrent senders, synchronous configuration
ConcSpec == Init /\ [][ConcNext]_vars

\* the registry, synchronous configuration
Spec == Init /\ [][Next]_vars

\* the registry, configuration with cooperative suspension
AsyncSpec == Init /\ [][AsyncNext]_vars

\* the slot allocator of src/slab.rs
SlabStart == SlabInit /\ RegInit

SlabSpec == SlabStart /\ [][SlabNext]_vars

SlabResetSpec == SlabStart /\ [][SlabResetNext]_vars

\* ========================================================================
\* Properties
\* ========================================================================
\* the registry tracks actor a: an Occupied entry of the slab holds its handle
Tracked(a) == \E i \in 1..Len(slab.entries) : slab.entries[i] = Occupied(a)

\* the identifier under which actor a is live
live_id(a) == CHOOSE id \in Ids : live[id] = a

\* C1: an identifier that was passed to kill while tracked never resolves
\* again: get with it returns absent in every later state, for every declared
\* type, also after a later spawn reused its slot index.
C1_KilledIdNeverResolves ==
    \A id \in killed : \A A \in Types : ~Slacktor_get(slab, actors, A, id).some

\* C2: a key whose slot remove has freed is absent for get and get_mut in
\* every later state, and an insert that returns the index of a freed key
\* returns a strictly greater generation with it.
C2_StaleKeyAbsent ==
    /\ \A k \in removed :
          /\ ~get(entries, k).some
          /\ ~get_mut(entries, k).some
    /\ (lastOp.op = "insert" /\ lastOp.ok) =>
          \A k \in removed :
             k.index = lastOp.key.index => lastOp.key.generation > k.generation

\* C2 witness: the scenario at capacity 2: {0,0} was removed, the next insert
\* returned {0,1}, get {0,0} is absent and get {0,1} is the value inserted last.
C2_Witness ==
    /\ initial_capacity = 2
    /\ Len(entries) = 2
    /\ SlabKey(0, 0) \in removed
    /\ lastOp = Op("insert", SlabKey(0, 1), 0, TRUE)
    /\ ~get(entries, SlabKey(0, 0)).some
    /\ get(entries, SlabKey(0, 1)) = Some(nextVal - 1)
    /\ get(entries, SlabKey(1, 0)).some

\* C3: no two successful inserts return equal keys: each slot's generation is
\* the number of its Used -> Free transitions, the keys issued for one index
\* carry strictly increasing generations, and every Used entry is held under
\* the key that was issued for its value.
C3_KeysUnique ==
    /\ Len(frees) = Len(entries)
    /\ \A i \in 1..Len(entries) : entries[i].generation = frees[i]
    /\ \A x, y \in issued :
          /\ x.key = y.key => x.val = y.val
          /\ (x.key.index = y.key.index /\ x.val < y.val) =>
                x.key.generation < y.key.generation
    /\ \A i \in 1..Len(entries) :
          entries[i].entry.tag = "Used" =>
             [key |-> SlabKey(i - 1, entries[i].generation),
              val |-> entries[i].entry.val] \in issued
    /\ Cardinality(issued) = Cardinality({x.key : x \in issued})

\* C3 witness: one index was issued three times, under generations 0, 1 and 2,
\* while another slot is in use.
C3_Witness ==
    /\ \E i \in 0..MaxCap :
          \A g \in 0..2 : \E x \in issued : x.key = SlabKey(i, g)
    /\ used = 2
    /\ \E i \in 1..Len(entries) : frees[i] = 2 /\ entries[i].entry.tag = "Used"

\* C4: in the state a spawn leaves, get with the spawned actor's own type and
\* the returned identifier yields the handle of exactly the instance passed to
\* that spawn, get with another type yields none, and send(m) on that handle
\* returns that instance's handler applied to m (m xor the value it holds).
C4_RoundTrip ==
    rop.op = "spawn" =>
        LET n == Len(actors)
            r == Slacktor_get(slab, actors, actors[n].type, rop.val)
        IN  /\ r = Some(n)
            /\ \A A \in Types \ {actors[n].type} :
                  ~Slacktor_get(slab, actors, A, rop.val).some
            /\ \A m \in Payloads : send(actors[r.val], m) = Xor(m, ActorValue(n))

\* C4 witness: a second actor was just spawned beside the first one, which
\* holds 7 and answers payload 5 with 2; the new one holds 6 and answers 3.
C4_Witness ==
    /\ rop.op = "spawn"
    /\ Len(actors) = 2
    /\ Tracked(1) /\ Tracked(2)
    /\ actors[1].value = 7
    /\ send(actors[Slacktor_get(slab, actors, actors[1].type, live_id(1)).val], 5) = 2
    /\ send(actors[Slacktor_get(slab, actors, actors[2].type, rop.val).val], 5) = 3

\* C5: kill(id) on a tracked identifier leaves get(id) absent for every type,
\* invokes destroy of the actor stored at id exactly once, leaves every other
\* actor as it was and every other identifier resolving as before.
C5_KillContract ==
    [][\A id \in Ids :
         (live[id] # 0 /\ Slacktor_kill(id)) =>
            LET a == live[id] IN
            /\ \A A \in Types : ~Slacktor_get(slab', actors', A, id).some
            /\ actors'[a].destroyed = actors[a].destroyed + 1
            /\ \A b \in (1..Len(actors)) \ {a} : actors'[b] = actors[b]
            /\ \A j \in Ids \ {id} : \A A \in Types :
                  Slacktor_get(slab', actors', A, j) = Slacktor_get(slab, actors, A, j)
      ]_vars

\* C5 witness: one actor was killed and its destroy ran once, while another
\* actor is still tracked and was never destroyed.
C5_Witness ==
    /\ killed # {}
    /\ \E a, b \in 1..Len(actors) :
          /\ ~Tracked(a) /\ actors[a].destroyed = 1
          /\ Tracked(b) /\ actors[b].destroyed = 0
          /\ \E id \in Ids : live[id] = b /\ id \notin killed

\* C6: kill on an identifier that is not tracked, or that was killed before
\* (whether or not a spawn happened since), changes neither the tracked
\* actors nor any actor: no destroy is invoked.
C6_KillIdempotent ==
    [][\A id \in Ids :
         ((~slab_contains(slab, id) \/ id \in killed) /\ Slacktor_kill(id)) =>
            UNCHANGED <<slab, actors>>
      ]_vars

\* C7: the actor value is dropped exactly when neither the registry nor any
\* handle clone refers to it: the strong count is the number of those
\* references, a clone held across kill or shutdown still answers send with
\* the handler's result of the same instance, and no send runs on a dropped
\* value.
C7_DeferredDestruction ==
    /\ \A a \in 1..Len(actors) :
          /\ actors[a].strong = actors[a].clones + (IF Tracked(a) THEN 1 ELSE 0)
          /\ actors[a].dropped <=> (actors[a].clones = 0 /\ ~Tracked(a))
          /\ actors[a].clones > 0 =>
                \A m \in Payloads : send(actors[a], m) = Xor(m, ActorValue(a))
    /\ rop.op = "send" => rop.ok

\* C7 witness: a send was just answered through a clone of an actor that the
\* registry has killed and forgotten; the value is still alive.
C7_Witness ==
    \E a \in 1..Len(actors) :
        /\ actors[a].clones > 0
        /\ ~Tracked(a)
        /\ actors[a].destroyed >= 1
        /\ ~actors[a].dropped
        /\ \A b \in (1..Len(actors)) \ {a} : actors[b].clones = 0 /\ ~Tracked(b)
        /\ rop = ROp("send", "-", 0, TRUE, Xor(5, ActorValue(a)))

\* C8: over spawn/get/kill/shutdown and send/kill/clone on handles, destroy is
\* invoked at most once on each actor.
C8_DestroyAtMostOnce ==
    \A a \in 1..Len(actors) : actors[a].destroyed <= 1

\* C9: the awaiting kill::<A>(id) on a tracked identifier, for every declared
\* type A, untracks id and invokes destroy of its actor exactly once, and it
\* returns None only for an untracked id, leaving the registry unchanged.
C9_AsyncKillContract ==
    [][\A A \in Types : \A id \in Ids :
         kill_async(A, id) =>
            /\ live[id] # 0 =>
                  /\ \A B \in Types : ~Slacktor_get(slab', actors', B, id).some
                  /\ actors'[live[id]].destroyed = actors[live[id]].destroyed + 1
            /\ ~rop'.ok => (live[id] = 0 /\ UNCHANGED <<slab, actors>>)
      ]_vars

\* C10: get::<A>(id) returns a handle exactly when id is tracked and its actor
\* was spawned with type A, and then the handle of that actor; a get that was
\* answered absent for a wrong type leaves the identifier resolving with the
\* right one.
C10_TypedLookup ==
    /\ \A A \in Types : \A id \in Ids :
          Slacktor_get(slab, actors, A, id) =
             IF live[id] # 0 /\ actors[live[id]].type = A
             THEN Some(live[id]) ELSE None
    /\ rop.op = "get" =>
          /\ rop.ok <=> (live[rop.id] # 0 /\ actors[live[rop.id]].type = rop.type)
          /\ rop.ok => rop.val = live[rop.id]

\* C10 witness: a get with the wrong declared type was just answered absent
\* for a tracked identifier, beside a second tracked actor of that very type.
C10_Witness ==
    /\ rop.op = "get" /\ ~rop.ok
    /\ live[rop.id] # 0
    /\ actors[live[rop.id]].type # rop.type
    /\ \E j \in Ids \ {rop.id} : live[j] # 0 /\ actors[live[j]].type = rop.type
    /\ Slacktor_get(slab, actors, actors[live[rop.id]].type, rop.id) = Some(live[rop.id])

\* C11: shutdown() invokes destroy exactly once on every actor tracked at the
\* call and on no other actor, and leaves the registry as Slacktor::new()
\* does: no identifier resolves, next_id() is that of a new registry, and the
\* slab is the empty one, so that later spawns return what a fresh registry
\* returns.
C11_Shutdown ==
    [][shutdown =>
         /\ \A a \in 1..Len(actors) :
               actors'[a].destroyed =
                  actors[a].destroyed + (IF \E id \in Ids : live[id] = a THEN 1 ELSE 0)
         /\ \A id \in Ids : \A A \in Types : ~Slacktor_get(slab', actors', A, id).some
         /\ slab_vacant_key(slab') = slab_vacant_key(slab_new)
         /\ slab' = slab_new
      ]_vars

\* C11 witness: a shutdown has just destroyed the two tracked actors, each
\* once, and the slab is the empty one.
C11_Witness ==
    /\ rop = Unit
    /\ slab = slab_new
    /\ Len(actors) >= 2
    /\ killed = {}
    /\ \A a \in 1..2 : actors[a].destroyed = 1 /\ actors[a].clones = 0
    /\ \A id \in Ids : live[id] = 0

\* C12: next_id() changes nothing, and a spawn returns exactly the identifier
\* that next_id() returns (and returned, when it was the call before) in the
\* state the spawn starts from.
C12_NextIdPreview ==
    [][/\ next_id_call => UNCHANGED <<slab, actors>>
       /\ \A A \in Types :
             spawn(A) =>
                /\ rop'.val = next_id
                /\ rop.op = "next_id" => rop'.val = rop.val
                /\ Slacktor_get(slab', actors', A, next_id) = Some(Len(actors'))
      ]_vars

\* C12 witness: next_id() has just answered 0 although the slab holds two
\* entries: the vacant list, rebuilt by shrink or left by kill, starts there.
C12_Witness ==
    /\ rop.op = "next_id"
    /\ rop.val = 0
    /\ Len(slab.entries) = 2
    /\ slab.len = 1

\* an insert call, whichever branch it takes
insert_call == insert_reuse \/ insert_push \/ insert_full

\* the entries that are Used
UsedIndices(es) == {i \in 1..Len(es) : es[i].entry.tag = "Used"}

\* the keys whose value is stored: issued since the last reset, not removed
LiveKeys == {r \in issued : r.key \notin removed}

\* C13: inserts reuse the freed indices in the reverse order of their removal:
\* a successful insert returns the index freed last among those still free,
\* keeping the number of entries, and appends a new entry only when no freed
\* index remains.
C13_LifoReuse ==
    [][insert_call /\ lastOp'.ok =>
         IF freedOrder # <<>>
         THEN /\ lastOp'.key.index = Head(freedOrder)
              /\ Len(entries') = Len(entries)
              /\ freedOrder' = Tail(freedOrder)
         ELSE /\ lastOp'.key.index = Len(entries)
              /\ Len(entries') = Len(entries) + 1
      ]_vars

\* C13 witness: of three entries, index 0 and then index 1 were freed with no
\* insert in between, and the insert just made took index 1; index 0 is the
\* one that is left for the next insert.
C13_Witness ==
    /\ lastOp.op = "insert" /\ lastOp.ok
    /\ lastOp.key = SlabKey(1, 1)
    /\ Len(entries) = 3
    /\ entries[1].entry.tag = "Free"
    /\ freedOrder = <<0>>
    /\ next_free = 0

\* C14: insert returns None exactly when no entry is Free and the number of
\* entries equals the capacity; the failed insert changes nothing of the slab
\* and every live key still resolves to its value; the insert that follows an
\* increase_capacity(Some(n)), n >= 1, succeeds.
C14_RecoverableExhaustion ==
    [][/\ insert_call =>
            /\ ~lastOp'.ok <=>
                  /\ UsedIndices(entries) = 1..Len(entries)
                  /\ Len(entries) = capacity
            /\ ~lastOp'.ok =>
                  /\ UNCHANGED <<entries, next_free, used, capacity>>
                  /\ \A r \in LiveKeys : get(entries', r.key) = Some(r.val)
            /\ lastOp.op = "increase_capacity" /\ lastOp.val >= 1 => lastOp'.ok
       /\ \A n \in {1, 2} :
             increase_capacity(n) =>
                next_free' + 1 <= Len(entries') \/ ~IsFull(next_free', capacity')
      ]_vars

\* C14 witness: an insert has just failed on a slab that is full after it was
\* grown beyond its initial capacity, with every key it issued still live.
C14_Witness ==
    /\ lastOp.op = "insert" /\ ~lastOp.ok
    /\ used = capacity
    /\ capacity > initial_capacity
    /\ initial_capacity >= 1
    /\ Cardinality(LiveKeys) = used

\* C15: increase_capacity(Some(n)) raises the capacity by n and
\* increase_capacity(None) doubles it: the capacity after the call is at least
\* the capacity before plus additional; contents, next_free and used stay.
C15_CapacityGrowth ==
    [][\A additional \in {-1, 1, 2} :
          increase_capacity(additional) =>
             /\ capacity' >= capacity + (IF additional = -1 THEN capacity ELSE additional)
             /\ UNCHANGED <<entries, next_free, used>>
      ]_vars

\* C16: a key issued for one inserted value never resolves, by get or by
\* get_mut, to a value inserted later, resets included.
C16_StaleKeyAcrossReset ==
    \A r \in issued \cup retired :
       /\ get(entries, r.key).some => get(entries, r.key).val = r.val
       /\ get_mut(entries, r.key).some => get_mut(entries, r.key).val = r.val

\* C17: get(k) and get_mut(k) return a value exactly when k.index is in range,
\* the entry is Used and its generation equals k.generation, and then that
\* entry's value; so every key issued since the last reset and not removed
\* resolves to the value it was issued for.
C17_SlotPersistence ==
    /\ \A k \in ValidKeys :
          LET inRange == k.index + 1 <= Len(entries)
              hit == /\ inRange
                     /\ entries[k.index + 1].entry.tag = "Used"
                     /\ entries[k.index + 1].generation = k.generation
          IN  /\ get(entries, k) = IF hit THEN Some(entries[k.index + 1].entry.val) ELSE None
              /\ get_mut(entries, k) = get(entries, k)
    /\ \A r \in LiveKeys :
          /\ get(entries, r.key) = Some(r.val)
          /\ get_mut(entries, r.key) = Some(r.val)
    /\ lastOp.op \in {"get", "get_mut"} /\ lastOp.ok =>
          \E r \in LiveKeys : r.val = lastOp.val

\* C17 witness: a get has just returned the first value of the slab, whose key
\* is still live after another slot was freed and reused, an insert failed
\* for lack of capacity and the capacity was increased.
C17_Witness ==
    /\ lastOp.op = "get" /\ lastOp.ok
    /\ \E r \in LiveKeys : r.key = SlabKey(0, 0) /\ r.val = lastOp.val
    /\ \E i \in 1..Len(frees) : frees[i] >= 1 /\ entries[i].entry.tag = "Used"
    /\ capacity > initial_capacity

\* C18: used, which len() returns, is the number of Used entries, and next_free
\* is the index of a Free entry or the number of entries.
C18_AllocatorInvariant ==
    /\ used = Cardinality(UsedIndices(entries))
    /\ len = Cardinality(UsedIndices(entries))
    /\ \/ next_free = Len(entries)
       \/ /\ next_free < Len(entries)
          /\ entries[next_free + 1].entry.tag = "Free"

\* C18 witness: after a reset, the slab holds a Used and a Free entry and
\* next_free is the index of the Free one.
C18_Witness ==
    /\ retired # {}
    /\ Len(entries) = 2
    /\ used = 1
    /\ next_free = 0
    /\ entries[1].entry.tag = "Free"
    /\ entries[2].entry.tag = "Used"

\* C19: insert never finds a Used entry at next_free: the abort of insert is
\* never reached, and every index on the free list, which starts at next_free
\* and follows the links, is that of a Free entry.
C19_FreeListSound ==
    /\ ~panicked
    /\ next_free + 1 <= Len(entries) => entries[next_free + 1].entry.tag = "Free"
    /\ \A i \in 1..Len(entries) :
          entries[i].entry.tag = "Free" /\ entries[i].entry.val + 1 <= Len(entries)
             => entries[entries[i].entry.val + 1].entry.tag = "Free"

\* C19 witness: after a reset, an insert has just reused a freed entry and
\* next_free is the index of another one, which the next insert will find.
C19_Witness ==
    /\ lastOp.op = "insert" /\ lastOp.ok
    /\ lastOp.key.generation >= 1
    /\ next_free + 1 <= Len(entries)
    /\ retired # {}

\* C20: remove(key) changes nothing of the slab when key.index is out of
\* range, the entry is Free or its generation differs from key.generation:
\* a remove step that changes the slab is one whose key is in range, of a Used
\* entry and of its generation; and a live key stops resolving to its value
\* only by a remove of that very key.
C20_HarmlessRemoval ==
    [][lastOp'.op = "remove" =>
         /\ ~(UNCHANGED <<entries, next_free, used, capacity, initial_capacity>>) =>
               \A key \in ValidKeys :
                  remove(key) =>
                     ~(\/ key.index + 1 > Len(entries)
                       \/ entries[key.index + 1].entry.tag = "Free"
                       \/ entries[key.index + 1].generation # key.generation)
         /\ \A r \in LiveKeys :
               get(entries', r.key) # Some(r.val) =>
                  \A key \in ValidKeys : remove(key) => key = r.key
      ]_vars

\* C20 witness: a remove has just returned without freeing anything: every
\* entry is Used, among them one that was reused after a key of it was
\* removed, so that this key is stale.
C20_Witness ==
    /\ lastOp.op = "remove"
    /\ \E k \in removed :
          /\ entries[k.index + 1].entry.tag = "Used"
          /\ entries[k.index + 1].generation > k.generation
    /\ freedOrder = <<>>
    /\ used = Len(entries)

\* C21: with threads sending through clones of a handle while the owner kills
\* the actor or shuts the registry down, every send runs the handler exactly
\* once, directly, with the sending thread's message and has that handler's
\* result to return; the actor value is not dropped while a send is running
\* on it, nor was it when the handler ran.
C21_ConcurrentSend ==
    \A t \in Threads :
       LET th == threads[t] IN
       /\ th.pc = "called" => th.calls = 0
       /\ th.pc = "handled" => th.calls = 1
       /\ th.calls >= 1 =>
             /\ th.calls = 1
             /\ th.res = handle_message(actors[th.h], ThreadMessage(t))
             /\ ~th.onDropped
       /\ th.pc # "none" =>
             /\ ~actors[th.h].dropped
             /\ actors[th.h].strong >= 1

\* C21 witness: two threads are inside send on the same actor, one with the
\* handler's result and one about to run the handler, after the registry
\* destroyed that actor and released its own handle.
C21_Witness ==
    /\ threads[1].pc = "handled"
    /\ threads[2].pc = "called"
    /\ threads[1].h = threads[2].h
    /\ actors[threads[1].h].destroyed = 1
    /\ actors[threads[1].h].strong = 2
    /\ threads[1].res = Xor(ThreadMessage(1), actors[threads[1].h].value)

\* the indices visited by following the links of Free entries from index i,
\* for at most n steps
RECURSIVE FreeChain(_, _, _)
FreeChain(es, i, n) ==
    IF n = 0 \/ i + 1 > Len(es) \/ es[i + 1].entry.tag # "Free" THEN <<>>
    ELSE <<i>> \o FreeChain(es, es[i + 1].entry.val, n - 1)

\* the value at which that walk stops
RECURSIVE FreeChainEnd(_, _, _)
FreeChainEnd(es, i, n) ==
    IF n = 0 \/ i + 1 > Len(es) \/ es[i + 1].entry.tag # "Free" THEN i
    ELSE FreeChainEnd(es, es[i + 1].entry.val, n - 1)

\* C22: the links followed from next_free visit every Free entry exactly once,
\* without a cycle, and end at the number of entries; so the number of
\* entries is used plus the length of that chain, never exceeds the capacity
\* and equals the largest number of entries that were Used at a time since
\* new or the last reset.
C22_FreeListWellFormed ==
    LET chain == FreeChain(entries, next_free, Len(entries) + 1)
        visited == {chain[j] : j \in 1..Len(chain)}
    IN  /\ Cardinality(visited) = Len(chain)
        /\ visited = {i - 1 : i \in (1..Len(entries)) \ UsedIndices(entries)}
        /\ FreeChainEnd(entries, next_free, Len(entries) + 1) = Len(entries)
        /\ Len(entries) = used + Len(chain)
        /\ Len(entries) <= capacity
        /\ Len(entries) = peak

\* C22 witness: of three entries that were all Used at a time, two are Free
\* and chained from next_free, the second one freed being the first.
C22_Witness ==
    /\ Len(entries) = 3
    /\ peak = 3
    /\ used = 1
    /\ Len(FreeChain(entries, next_free, 4)) = 2
    /\ FreeChain(entries, next_free, 4) = freedOrder
    /\ \E i \in 1..3 : entries[i].generation >= 2

====
